---- MODULE Spec2Model ----
(***************************************************************************)
(* Generative poster engine of src/app.py: the three Matplotlib renderers, *)
(* the shared numpy random stream they draw from, the style dispatch and   *)
(* the Streamlit session around them.                                      *)
(*                                                                         *)
(* Numbers.  Python floats are modelled as exact fractions over fixed      *)
(* denominators, so every coordinate is an integer numerator:              *)
(*   wobble_factor   in tenths            (0.2 is 2)                       *)
(*   a raw draw k    is one state of the random stream, 0 .. RngModulus-1  *)
(*   uniform(0,1)    = k/16                                                *)
(*   normal(0,sd)    = sd * (k-8)/4                                        *)
(*   scatter / line coordinates in 1/800, circle geometry in 1/(320*GRID)  *)
(*   marker size s in halves, linewidth in quarters, alpha in hundredths   *)
(***************************************************************************)
EXTENDS Integers, Sequences, FiniteSets, TLC

VARIABLES
    rng,                        \* state of the process-global np.random stream
    last,                       \* the most recent renderer call (None before any)
    ref,                        \* an earlier renderer call kept for comparison
    search_triggered,           \* st.session_state['search_triggered']
    ai_params,                  \* st.session_state['ai_params']
    artwork_list,               \* st.session_state['artwork_list']
    selected_artwork_details,   \* st.session_state['selected_artwork_details']
    generated_posters,          \* st.session_state['generated_posters']
    point_count_key,            \* st.session_state['point_count_key']
    selected_style,             \* value of the style selectbox
    runs,                       \* script runs so far in the session
    threads                     \* renderer calls in flight on script threads

vars ==
    <<rng, last, ref, search_triggered, ai_params, artwork_list,
      selected_artwork_details, generated_posters, point_count_key,
      selected_style, runs, threads>>

sessionVars ==
    <<search_triggered, ai_params, artwork_list, selected_artwork_details,
      generated_posters, point_count_key, selected_style, runs>>

-----------------------------------------------------------------------------
(* Bounds of the model *)

MaxLayers == 3
MaxPalette == 2
MaxDensity == 2

(* Program constants *)

DefaultLayers == 5
DefaultWobble == 2
RandomSeed == 42
DefaultPalette == <<"#FF0000", "#0000FF", "#00FF00", "#FFFF00">>

\* Python's None
None == [py_None |-> TRUE]

-----------------------------------------------------------------------------
(* The random stream: np.random.seed and the draws taken from it *)

RngModulus == 16

\* np.random.seed(v)
Seed(v) == v % RngModulus

\* one step of the generator; the value drawn is the state reached
Advance(s) == (5 * s + 3) % RngModulus

RECURSIVE AdvanceBy(_, _)
AdvanceBy(s, n) == IF n <= 0 THEN s ELSE AdvanceBy(Advance(s), n - 1)

\* np.random.uniform(0, 1, n): n successive draws
Draws(s, n) == [j \in 1..n |-> AdvanceBy(s, j)]

\* np.random.normal(0, sd) for sd = wobble * sdTwentieths / 20, in 1/800
Normal(k, wobble, sdTwentieths) == wobble * sdTwentieths * (k - 8)

-----------------------------------------------------------------------------
(* Raw parameter mappings: dicts with any subset of the four keys *)

EmptyMap == [k \in {} |-> 0]

\* dict.get(key, default)
Get(m, key, default) == IF key \in DOMAIN m THEN m[key] ELSE default

Colours == <<"#112233", "#445566", "#778899", "#AABBCC", "#DDEEFF", "#123456">>

Palettes == { SubSeq(Colours, 1, n) : n \in 0..MaxPalette }

\* 8 is the layer count of the resolver's documented example
LayerValues == (-1..MaxLayers) \cup {8}

WobbleValues == {-5, 0, 5, 10, 20}

AnalysisTexts == {"analysis text"}

Opt(key, values) == {EmptyMap} \cup { key :> v : v \in values }

RawMappings ==
    { p @@ l @@ w @@ a :
        p \in Opt("color_palette", Palettes),
        l \in Opt("layers", LayerValues),
        w \in Opt("wobble_factor", WobbleValues),
        a \in Opt("analysis", AnalysisTexts) }

-----------------------------------------------------------------------------
(* Canvas *)

\* setup_canvas without the call of np.random.seed
setup_canvas_noSeed(s) == s

\* setup_canvas: a fresh figure and a reseeded global stream
setup_canvas(s) == Seed(RandomSeed)

\* the drawing state threaded through a renderer's loop
Canvas(s) == [rng |-> setup_canvas(s), outcome |-> "ok", geom |-> << >>]

Raise(st, exc) == [st EXCEPT !.outcome = exc]

-----------------------------------------------------------------------------
(* Style 1: Impressionism Touch *)

\* body of the loop at layer i
ScatterLayer(i, colors, wobble, n, st) ==
    IF Len(colors) = 0
    THEN Raise(st, "ZeroDivisionError")
    ELSE
      LET color == colors[(i % Len(colors)) + 1]
          ux    == Draws(st.rng, n)
          nx    == Advance(AdvanceBy(st.rng, n))
          uy    == Draws(nx, n)
          ny    == Advance(AdvanceBy(nx, n))
          sz    == Advance(ny)
          layer == [kind  |-> "scatter",
                    color |-> color,
                    x     |-> [j \in 1..n |-> 50 * ux[j] + Normal(nx, wobble, 2)],
                    y     |-> [j \in 1..n |-> 50 * uy[j] + Normal(ny, wobble, 2)],
                    s     |-> 20 + 5 * sz,
                    alpha |-> 15]
      IN [st EXCEPT !.rng = sz, !.geom = Append(@, layer)]

\* the loop running one layer too many
RECURSIVE ScatterLoop_offByOne(_, _, _, _, _, _)
ScatterLoop_offByOne(i, layers, colors, wobble, n, st) ==
    IF i > layers \/ st.outcome # "ok"
    THEN st
    ELSE ScatterLoop_offByOne(i + 1, layers, colors, wobble, n,
                              ScatterLayer(i, colors, wobble, n, st))

RECURSIVE ScatterLoop(_, _, _, _, _, _)
ScatterLoop(i, layers, colors, wobble, n, st) ==
    IF i >= layers \/ st.outcome # "ok"
    THEN st
    ELSE ScatterLoop(i + 1, layers, colors, wobble, n,
                     ScatterLayer(i, colors, wobble, n, st))

-----------------------------------------------------------------------------
(* Style 2: Layered Lines *)

\* the orientation test inverted
LineSegment_oddHorizontal(i, colors, wobble, st) ==
    IF Len(colors) = 0
    THEN Raise(st, "ZeroDivisionError")
    ELSE
      LET color == colors[(i % Len(colors)) + 1]
          s0 == Advance(st.rng)
          s1 == Advance(s0)
          e0 == Advance(s1)
          e1 == Advance(e0)
          n1 == Advance(e1)
          n2 == Advance(n1)
          lw == Advance(n2)
          seg == IF i % 2 = 1
                 THEN [kind |-> "line", color |-> color,
                       x |-> <<50 * s0, 50 * e0 + 40 * wobble>>,
                       y |-> <<50 * s1 + Normal(n1, wobble, 1),
                               50 * s1 + Normal(n2, wobble, 1)>>,
                       linewidth |-> 4 + lw, alpha |-> 30, zorder |-> i]
                 ELSE [kind |-> "line", color |-> color,
                       x |-> <<50 * s0 + Normal(n1, wobble, 1),
                               50 * s0 + Normal(n2, wobble, 1)>>,
                       y |-> <<50 * s1, 50 * e1 + 40 * wobble>>,
                       linewidth |-> 4 + lw, alpha |-> 30, zorder |-> i]
      IN [st EXCEPT !.rng = lw, !.geom = Append(@, seg)]

\* body of the loop at line i
LineSegment(i, colors, wobble, st) ==
    IF Len(colors) = 0
    THEN Raise(st, "ZeroDivisionError")
    ELSE
      LET color == colors[(i % Len(colors)) + 1]
          s0 == Advance(st.rng)
          s1 == Advance(s0)
          e0 == Advance(s1)
          e1 == Advance(e0)
          n1 == Advance(e1)
          n2 == Advance(n1)
          lw == Advance(n2)
          seg == IF i % 2 = 0
                 THEN [kind |-> "line", color |-> color,
                       x |-> <<50 * s0, 50 * e0 + 40 * wobble>>,
                       y |-> <<50 * s1 + Normal(n1, wobble, 1),
                               50 * s1 + Normal(n2, wobble, 1)>>,
                       linewidth |-> 4 + lw, alpha |-> 30, zorder |-> i]
                 ELSE [kind |-> "line", color |-> color,
                       x |-> <<50 * s0 + Normal(n1, wobble, 1),
                               50 * s0 + Normal(n2, wobble, 1)>>,
                       y |-> <<50 * s1, 50 * e1 + 40 * wobble>>,
                       linewidth |-> 4 + lw, alpha |-> 30, zorder |-> i]
      IN [st EXCEPT !.rng = lw, !.geom = Append(@, seg)]

RECURSIVE LinesLoop(_, _, _, _, _)
LinesLoop(i, nLines, colors, wobble, st) ==
    IF i >= nLines \/ st.outcome # "ok"
    THEN st
    ELSE LinesLoop(i + 1, nLines, colors, wobble,
                   LineSegment(i, colors, wobble, st))

-----------------------------------------------------------------------------
(* Style 3: Convex Tiles *)

\* the wobble term added instead of subtracted
Radius_plus(wobble, k) == 160 + wobble * k

\* radius = (STEP / 2) * (1 - wobble * u), in 1/(320*GRID), for the draw u = k/16
Radius(wobble, k) == 160 - wobble * k

\* body of the inner loop at cell c = i * GRID_SIZE + j
TileCircle(c, grid, colors, wobble, st) ==
    IF Len(colors) = 0
    THEN Raise(st, "ZeroDivisionError")
    ELSE
      LET i == c \div grid
          j == c % grid
          color == colors[((i * grid + j) % Len(colors)) + 1]
          k == Advance(st.rng)
          circle == [kind |-> "circle", color |-> color,
                     center_x |-> 160 * (2 * i + 1),
                     center_y |-> 160 * (2 * j + 1),
                     radius |-> Radius(wobble, k),
                     den |-> 320 * grid, alpha |-> 80]
      IN [st EXCEPT !.rng = k, !.geom = Append(@, circle)]

RECURSIVE TilesLoop(_, _, _, _, _)
TilesLoop(c, grid, colors, wobble, st) ==
    IF grid <= 0 \/ c >= grid * grid \/ st.outcome # "ok"
    THEN st
    ELSE TilesLoop(c + 1, grid, colors, wobble,
                   TileCircle(c, grid, colors, wobble, st))

\* STEP = 1.0 / GRID_SIZE
TilesStep(grid, st) == IF grid = 0 THEN Raise(st, "ZeroDivisionError") ELSE st


-----------------------------------------------------------------------------
(* The three renderers.  Each returns what the call leaves behind: the     *)
(* exception it ended in ("ok" when it returned the figure), the artists   *)
(* added to the axes, the state of the global stream, and the parameters   *)
(* as the renderer resolved them.                                          *)

Scatter == "generate_impressionism_touch_poster"

Lines == "generate_layered_lines_poster"

Tiles == "generate_convex_tiles_poster"

Result(renderer, colors, layers, wobble, st) ==
    [renderer |-> renderer, colors |-> colors, layers |-> layers,
     wobble |-> wobble, outcome |-> st.outcome, geom |-> st.geom,
     rng |-> st.rng]

ResolvePalette(params) == Get(params, "color_palette", DefaultPalette)

\* "params.get('layers') or 5": a present 0 replaced by the default as well
ResolveLayers_orDefault(params) ==
    IF "layers" \in DOMAIN params /\ params.layers # 0
    THEN params.layers
    ELSE DefaultLayers

ResolveLayers(params) == Get(params, "layers", DefaultLayers)

ResolveWobble(params) == Get(params, "wobble_factor", DefaultWobble)

generate_impressionism_touch_poster(params, point_count, s) ==
    LET colors == ResolvePalette(params)
        layers == ResolveLayers(params)
        wobble == ResolveWobble(params)
    IN Result(Scatter, colors, layers, wobble,
              ScatterLoop(0, layers, colors, wobble, point_count, Canvas(s)))

generate_layered_lines_poster(params, point_count, s) ==
    LET colors == ResolvePalette(params)
        layers == ResolveLayers(params)
        wobble == ResolveWobble(params)
    IN Result(Lines, colors, layers, wobble,
              LinesLoop(0, point_count, colors, wobble, Canvas(s)))

generate_convex_tiles_poster(params, s) ==
    LET colors == ResolvePalette(params)
        layers == ResolveLayers(params)
        wobble == ResolveWobble(params)
    IN Result(Tiles, colors, layers, wobble,
              TilesLoop(0, layers, colors, wobble, TilesStep(layers, Canvas(s))))

-----------------------------------------------------------------------------
(* Style dispatch of main *)

Styles == {"Impressionism Touch", "Layered Lines", "Convex Tiles"}

\* a name the selectbox does not offer
OtherStyles == {"Cubism"}

\* the renderer the if / elif / else chain picks
RendererFor(style) ==
    IF style = "Layered Lines" THEN Lines
    ELSE IF style = "Convex Tiles" THEN Tiles
    ELSE Scatter

Dispatch(style, params, point_count, s) ==
    LET renderer == RendererFor(style)
    IN IF renderer = Lines
       THEN generate_layered_lines_poster(params, point_count, s)
       ELSE IF renderer = Tiles
       THEN generate_convex_tiles_poster(params, s)
       ELSE generate_impressionism_touch_poster(params, point_count, s)

\* a render request, the state it found the stream in, and what it came to
Call(style, params, point_count, r, entry) ==
    [style |-> style, params |-> params, density |-> point_count,
     entry |-> entry,
     renderer |-> r.renderer, colors |-> r.colors, layers |-> r.layers,
     wobble |-> r.wobble, outcome |-> r.outcome, geom |-> r.geom]

-----------------------------------------------------------------------------
(* Engine: the parameter source has supplied any mapping whatever and     *)
(* earlier use has left the random stream anywhere; one render request is  *)
(* made directly, with any style name and density.                         *)

Densities == 0..MaxDensity

\* the session state as lines 27-39 leave it; the slider starts on the
\* lowest of the scaled-down counts
InitSession ==
    /\ search_triggered = FALSE
    /\ artwork_list = << >>
    /\ selected_artwork_details = None
    /\ generated_posters = << >>
    /\ point_count_key = 1
    /\ selected_style = "Impressionism Touch"
    /\ runs = 0

InitEngine ==
    /\ rng \in 0..(RngModulus - 1)
    /\ last = None
    /\ ref = None
    /\ threads = << >>
    /\ ai_params \in RawMappings
    /\ InitSession

RenderRequest(style, point_count) ==
    LET r == Dispatch(style, ai_params, point_count, rng)
    IN /\ last = None
       /\ rng' = r.rng
       /\ last' = Call(style, ai_params, point_count, r, rng)
       /\ UNCHANGED <<ref, threads>>
       /\ UNCHANGED sessionVars

NextEngine ==
    \E style \in Styles \cup OtherStyles, point_count \in Densities :
        RenderRequest(style, point_count)

SpecEngine == InitEngine /\ [][NextEngine]_vars


-----------------------------------------------------------------------------
(* The Streamlit session: every widget interaction runs the script of main *)
(* once, from the sidebar to the gallery tab.                              *)

MaxResults == 2
MaxRuns == 7

Artwork(id, title, artist) ==
    [object_id |-> id, title |-> title, artist |-> artist,
     image_url |-> "https://images.metmuseum.org/small.jpg"]

\* artworks with an image, in the order the search returns them; two share
\* a title
Catalogue ==
    <<Artwork(1, "Water Lilies", "Claude Monet"),
      Artwork(2, "Haystacks", "Claude Monet"),
      Artwork(3, "Water Lilies", "Unknown Artist"),
      Artwork(4, "Untitled", "Unknown Artist")>>

\* a search finds nothing, or the first MaxResults artworks
SearchResults == {<< >>, SubSeq(Catalogue, 1, MaxResults)}

\* what get_ai_design_suggestions may return: None on any failure, else the
\* JSON object of the reply, whatever keys it holds
AIResponses ==
    {None, EmptyMap,
     [analysis |-> "analysis text", color_palette |-> SubSeq(Colours, 1, 2),
      layers |-> 2, wobble_factor |-> 5],
     [color_palette |-> << >>, layers |-> 0]}

\* the slider's positions, scaled down to counts a renderer call can be
\* unfolded for
SliderValues == 1..MaxDensity

\* truth value of st.session_state['ai_params']
Truthy(p) == p # None /\ DOMAIN p # {}

\* the parameter display deleting the analysis key from the stored mapping
DisplayParameters_deleteInPlace(params) ==
    [analysis_text |-> Get(params, "analysis", "No analysis result available."),
     param_display |-> [k \in DOMAIN params \ {"analysis"} |-> params[k]],
     params |-> [k \in DOMAIN params \ {"analysis"} |-> params[k]]]

\* the analysis container: the text shown, the JSON shown, and the stored
\* mapping as the display leaves it
DisplayParameters(params) ==
    [analysis_text |-> Get(params, "analysis", "No analysis result available."),
     param_display |-> [k \in DOMAIN params \ {"analysis"} |-> params[k]],
     params |-> params]

\* "p == poster_info": the whole entry compared, image bytes included
is_duplicate_wholeEntry(posters, info) ==
    \E i \in 1..Len(posters) : posters[i] = info

is_duplicate(posters, info) ==
    \E i \in 1..Len(posters) :
        posters[i].title = info.title /\ posters[i].style = info.style

\* tab1 from the test of ai_params on: display, style selectbox, render, save
PosterSection(params, artwork, style, point_count) ==
    IF artwork # None /\ Truthy(params)
    THEN
      LET shown == DisplayParameters(params)
          r == Dispatch(style, shown.params, point_count, rng)
          call == Call(style, shown.params, point_count, r, rng)
          poster_info == [title |-> artwork.title, artist |-> artwork.artist,
                          style |-> style, image_data |-> r.geom]
      IN /\ ai_params' = shown.params
         /\ selected_style' = style
         /\ rng' = r.rng
         /\ last' = call
         /\ ref' \in (IF ref = None THEN {None, call} ELSE {ref})
         /\ generated_posters' =
              IF r.outcome = "ok" /\ ~is_duplicate(generated_posters, poster_info)
              THEN Append(generated_posters, poster_info)
              ELSE generated_posters
    ELSE
      \* nothing is drawn; the selectbox is not on the page, so it starts
      \* from its first option when it next appears
      /\ ai_params' = params
      /\ selected_style' = "Impressionism Touch"
      /\ UNCHANGED <<rng, last, ref, generated_posters>>

Init ==
    /\ rng = 0
    /\ last = None
    /\ ref = None
    /\ threads = << >>
    /\ ai_params = None
    /\ InitSession

\* the Search button
Search(results) ==
    /\ runs < MaxRuns
    /\ runs' = runs + 1
    /\ artwork_list' = results
    /\ search_triggered' = (results # << >>)
    /\ selected_artwork_details' = None
    /\ PosterSection(None, None, selected_style, point_count_key)
    /\ UNCHANGED <<point_count_key, threads>>

\* a "Select This Artwork" button, and the rerun it asks for
SelectArtwork(i) ==
    /\ runs < MaxRuns
    /\ runs' = runs + 1
    /\ selected_artwork_details = None
    /\ search_triggered
    /\ i \in 1..Len(artwork_list)
    /\ selected_artwork_details' = artwork_list[i]
    /\ PosterSection(ai_params, artwork_list[i], selected_style, point_count_key)
    /\ UNCHANGED <<search_triggered, artwork_list, point_count_key, threads>>

\* the "Start AI Analysis" button
Analyze(response) ==
    /\ runs < MaxRuns
    /\ selected_artwork_details # None
    /\ runs' = runs + 1
    /\ PosterSection(response, selected_artwork_details, selected_style,
                     point_count_key)
    /\ UNCHANGED <<search_triggered, artwork_list, selected_artwork_details,
                   point_count_key, threads>>

\* another option picked in the style selectbox
SelectStyle(style) ==
    /\ runs < MaxRuns
    /\ runs' = runs + 1
    /\ selected_artwork_details # None
    /\ Truthy(ai_params)
    /\ style # selected_style
    /\ PosterSection(ai_params, selected_artwork_details, style, point_count_key)
    /\ UNCHANGED <<search_triggered, artwork_list, selected_artwork_details,
                   point_count_key, threads>>

\* the density slider moved
MoveSlider(value) ==
    /\ runs < MaxRuns
    /\ runs' = runs + 1
    /\ value # point_count_key
    /\ point_count_key' = value
    /\ PosterSection(ai_params, selected_artwork_details, selected_style, value)
    /\ UNCHANGED <<search_triggered, artwork_list, selected_artwork_details,
                   threads>>

\* any other interaction with the poster on screen: a download button, an
\* expander
Rerun ==
    /\ runs < MaxRuns
    /\ runs' = runs + 1
    /\ selected_artwork_details # None
    /\ Truthy(ai_params)
    /\ PosterSection(ai_params, selected_artwork_details, selected_style,
                     point_count_key)
    /\ UNCHANGED <<search_triggered, artwork_list, selected_artwork_details,
                   point_count_key, threads>>

Next ==
    \/ \E results \in SearchResults : Search(results)
    \/ \E i \in 1..MaxResults : SelectArtwork(i)
    \/ \E response \in AIResponses : Analyze(response)
    \/ \E style \in Styles : SelectStyle(style)
    \/ \E value \in SliderValues : MoveSlider(value)
    \/ Rerun

Spec == Init /\ [][Next]_vars

-----------------------------------------------------------------------------
(* Concurrent sessions: Streamlit runs each session's script on its own    *)
(* thread of the one server process, and np.random is module state shared  *)
(* by all of them.  A thread is followed from its call of setup_canvas,    *)
(* one loop iteration at a time; threads switch between iterations.        *)

NumThreads == 2

ConcurrentMappings ==
    {[analysis |-> "analysis text", color_palette |-> SubSeq(Colours, 1, 2),
      layers |-> 2, wobble_factor |-> 5],
     [color_palette |-> << >>, layers |-> 0, wobble_factor |-> 5]}

IdleThread == [pc |-> "idle"]

\* iterations of the renderer's loop (of both loops, for the tiles)
Iterations(renderer, layers, point_count) ==
    IF renderer = Lines THEN point_count
    ELSE IF renderer = Tiles THEN (IF layers > 0 THEN layers * layers ELSE 0)
    ELSE layers

\* the renderer up to its loop: parameters resolved, canvas set up
EnterRenderer(t, style, params, point_count) ==
    LET renderer == RendererFor(style)
        layers == ResolveLayers(params)
        st == IF renderer = Tiles
              THEN TilesStep(layers, Canvas(rng))
              ELSE Canvas(rng)
    IN /\ threads[t].pc = "idle"
       /\ rng' = st.rng
       /\ threads' = [threads EXCEPT ![t] =
            [pc |-> "drawing", style |-> style, params |-> params,
             density |-> point_count, renderer |-> renderer,
             colors |-> ResolvePalette(params), layers |-> layers,
             wobble |-> ResolveWobble(params), i |-> 0,
             outcome |-> st.outcome, geom |-> st.geom]]
       /\ UNCHANGED <<last, ref>>
       /\ UNCHANGED sessionVars

\* one iteration of the loop, drawing from the stream as it stands
DrawNext(t) ==
    LET th == threads[t]
        st == [rng |-> rng, outcome |-> th.outcome, geom |-> th.geom]
        st2 == IF th.renderer = Lines
               THEN LineSegment(th.i, th.colors, th.wobble, st)
               ELSE IF th.renderer = Tiles
               THEN TileCircle(th.i, th.layers, th.colors, th.wobble, st)
               ELSE ScatterLayer(th.i, th.colors, th.wobble, th.density, st)
    IN /\ th.pc = "drawing"
       /\ th.outcome = "ok"
       /\ th.i < Iterations(th.renderer, th.layers, th.density)
       /\ rng' = st2.rng
       /\ threads' = [threads EXCEPT ![t] =
            [th EXCEPT !.i = @ + 1, !.outcome = st2.outcome, !.geom = st2.geom]]
       /\ UNCHANGED <<last, ref>>
       /\ UNCHANGED sessionVars

\* the renderer returns its figure, or the exception leaves it
LeaveRenderer(t) ==
    LET th == threads[t]
    IN /\ th.pc = "drawing"
       /\ \/ th.outcome # "ok"
          \/ th.i >= Iterations(th.renderer, th.layers, th.density)
       /\ threads' = [threads EXCEPT ![t] = [th EXCEPT !.pc = "done"]]
       /\ UNCHANGED <<rng, last, ref>>
       /\ UNCHANGED sessionVars

InitConcurrent ==
    /\ rng = 0
    /\ last = None
    /\ ref = None
    /\ threads = [t \in 1..NumThreads |-> IdleThread]
    /\ ai_params = None
    /\ InitSession

NextConcurrent ==
    \E t \in 1..NumThreads :
        \/ \E style \in Styles, params \in ConcurrentMappings,
              point_count \in SliderValues :
                EnterRenderer(t, style, params, point_count)
        \/ DrawNext(t)
        \/ LeaveRenderer(t)

SpecConcurrent == InitConcurrent /\ [][NextConcurrent]_vars

-----------------------------------------------------------------------------
(* Properties of the engine *)

\* the call got as far as evaluating colors[... % len(colors)]
IndexesPalette(c) ==
    \/ c.renderer = Scatter /\ c.layers >= 1
    \/ c.renderer = Lines /\ c.density >= 1
    \/ c.renderer = Tiles /\ c.layers >= 1

\* C1: whenever a renderer indexes the palette, the palette is non-empty
\* (the default having replaced an absent and an empty palette alike).
C1_PaletteNonEmptyWhenIndexed ==
    (last # None /\ IndexesPalette(last)) => Len(last.colors) > 0

\* C2: Convex Tiles called with layers = 0 ends in InvalidParameter, not in
\* a division by zero.
C2_ZeroLayersInvalidParameter ==
    (last # None /\ last.renderer = Tiles /\ last.layers = 0)
        => last.outcome = "InvalidParameter"

RadiiInRange(c) ==
    /\ \A i \in 1..Len(c.geom) :
         c.geom[i].radius > 0 /\ c.geom[i].radius <= 160
    /\ \A k \in 0..(RngModulus - 1) :
         Radius(c.wobble, k) > 0 /\ Radius(c.wobble, k) <= 160

\* C6 as claimed: with layers = L >= 1 and whatever wobble, Convex Tiles
\* draws L*L circles, each of radius in (0, STEP/2].
C6_RadiusInRangeAnyWobble ==
    (last # None /\ last.renderer = Tiles /\ last.layers >= 1
       /\ Len(last.colors) >= 1)
        => /\ Len(last.geom) = last.layers * last.layers
           /\ RadiiInRange(last)

\* C6 as amended: with layers = L >= 1, a non-empty palette and
\* 0 <= wobble <= 1, Convex Tiles draws L*L circles, each of radius in
\* (0, STEP/2], whatever the uniform draw.
C6_RadiusInRangeUnitWobble ==
    (last # None /\ last.renderer = Tiles /\ last.layers >= 1
       /\ Len(last.colors) >= 1
       /\ last.wobble >= 0 /\ last.wobble <= 10)
        => /\ last.outcome = "ok"
           /\ Len(last.geom) = last.layers * last.layers
           /\ RadiiInRange(last)

C6_Witness ==
    /\ last # None
    /\ last.renderer = Tiles
    /\ last.outcome = "ok"
    /\ last.layers = 2
    /\ last.wobble = 10
    /\ Len(last.geom) = 4
    /\ \E i \in 1..4 : last.geom[i].radius < 40

\* the j-th draw (j = 1..7) that segment i takes from the reseeded stream
LineDraw(i, j) == AdvanceBy(Seed(RandomSeed), 7 * i + j)

C9_ResolveDefaults ==
    last # None =>
        /\ last.colors =
             IF "color_palette" \in DOMAIN last.params
             THEN last.params.color_palette
             ELSE <<"#FF0000", "#0000FF", "#00FF00", "#FFFF00">>
        /\ last.layers =
             IF "layers" \in DOMAIN last.params THEN last.params.layers ELSE 5
        /\ last.wobble =
             IF "wobble_factor" \in DOMAIN last.params
             THEN last.params.wobble_factor
             ELSE 2

C9_Witness ==
    /\ last # None
    /\ last.params = ("layers" :> 8)
    /\ last.colors = <<"#FF0000", "#0000FF", "#00FF00", "#FFFF00">>
    /\ last.layers = 8
    /\ last.wobble = 2


-----------------------------------------------------------------------------
(* Properties of the session and of concurrent sessions *)

SameRequest(a, b) ==
    a.params = b.params /\ a.style = b.style /\ a.density = b.density

\* C3: two render calls made one after the other with the same parameters,
\* style and density produce the same geometry, whatever was rendered in
\* between.
C3_Determinism ==
    (ref # None /\ last # None /\ SameRequest(ref, last))
        => ref.geom = last.geom /\ ref.outcome = last.outcome

C3_Witness ==
    /\ ref # None
    /\ last # None
    /\ SameRequest(ref, last)
    /\ ref.entry # last.entry
    /\ last.renderer = Lines
    /\ Len(last.geom) = 2

\* the geometry a request produces when nothing else runs
GeometryAlone(th) == Dispatch(th.style, th.params, th.density, 0).geom

\* C4: a render call that runs concurrently with another produces the
\* geometry it produces alone, however their steps interleave.
C4_ConcurrentDeterminism ==
    \A t \in DOMAIN threads :
        threads[t].pc = "done" => threads[t].geom = GeometryAlone(threads[t])

\* C10: the script's display and render steps leave the stored mapping
\* as it was, analysis key included, and a render that follows another of
\* the same stored mapping resolves the same palette, layers and wobble;
\* an analysis stores what the parameter source returned.
C10_ParamsReadOnly ==
    [][ /\ ( \/ Rerun
             \/ \E style \in Styles : SelectStyle(style)
             \/ \E value \in SliderValues : MoveSlider(value) )
           => /\ ai_params' = ai_params
              /\ (Truthy(ai_params) /\ selected_artwork_details # None)
                   => /\ last'.params = ai_params
                      /\ (last # None /\ last.params = ai_params)
                           => /\ last'.colors = last.colors
                              /\ last'.layers = last.layers
                              /\ last'.wobble = last.wobble
        /\ \A response \in AIResponses :
             Analyze(response) => ai_params' = response ]_vars

C10_Witness ==
    /\ ref # None
    /\ last # None
    /\ "analysis" \in DOMAIN ai_params
    /\ ref.params = ai_params
    /\ last.params = ai_params
    /\ ref.entry # last.entry
    /\ ref.style # last.style

-----------------------------------------------------------------------------
(* Properties of the gallery *)

\* an entry of the gallery has this title and style
HasPair(posters, title, style) ==
    \E i \in 1..Len(posters) :
        posters[i].title = title /\ posters[i].style = style

\* the script run of this step got to the renderer
Rendered ==
    selected_artwork_details' # None /\ Truthy(ai_params')

\* C11: the gallery never holds two entries with the same (title, style);
\* a script run whose render succeeds appends its poster when no entry has
\* that pair, and every other run (a failed render, a pair already saved,
\* no render at all) leaves the gallery exactly as it was.
C11_GalleryUniqueAppendOnly ==
    /\ [](\A i, j \in 1..Len(generated_posters) :
            ( /\ generated_posters[i].title = generated_posters[j].title
              /\ generated_posters[i].style = generated_posters[j].style )
                => i = j)
    /\ [][ IF /\ Rendered
              /\ last'.outcome = "ok"
              /\ ~HasPair(generated_posters, selected_artwork_details'.title,
                          last'.style)
           THEN generated_posters' =
                  Append(generated_posters,
                         [title |-> selected_artwork_details'.title,
                          artist |-> selected_artwork_details'.artist,
                          style |-> last'.style,
                          image_data |-> last'.geom])
           ELSE generated_posters' = generated_posters ]_vars

\* two posters are saved, and the render just made was not: its pair is in
\* the gallery with the image of an earlier render
C11_Witness ==
    /\ Len(generated_posters) >= 2
    /\ last # None
    /\ last.outcome = "ok"
    /\ selected_artwork_details # None
    /\ \E i \in 1..Len(generated_posters) :
         /\ generated_posters[i].title = selected_artwork_details.title
         /\ generated_posters[i].style = last.style
         /\ generated_posters[i].image_data # last.geom

=============================================================================
